---- MODULE Spec2Model ----
(***************************************************************************)
(* pinball (src/main.rs): apply a tuning profile to network interfaces.    *)
(* main loads a configuration, looks a profile up by name and configures   *)
(* its interfaces one after the other: ethtool -L for the queue counts,    *)
(* then /proc/irq/<n>/smp_affinity_list for every interrupt of the         *)
(* interface, each write retried up to five times.                         *)
(*                                                                         *)
(* Strings are sequences of one-character strings, so that the byte-wise   *)
(* checks of the program (bytes().all(..)), its number parsing and its     *)
(* number formatting are computed and not assumed.  Option<T> is a         *)
(* sequence of length at most one.                                         *)
(***************************************************************************)
EXTENDS Integers, Sequences, FiniteSets, TLC

VARIABLES
    config,        \* the Config the file parses to (read-only after load)
    profile_name,  \* the PROFILE command-line argument
    pc,            \* position of the single thread of control
    exit_code,     \* Option: the process exit status once it has exited
    stderr,        \* sequence of messages written to standard error
    profile,       \* index into config.profile of the profile found, 0 = none
    nic,           \* index of the interface main's for loop is at, 0 = before
    pending,       \* keys of the current irqs map the iteration has not yielded
    cur,           \* key of the current irqs entry, <<>> when there is none
    i,             \* the retry loop's variable
    attempts,      \* open calls made for the current entry
    sleeps,        \* thread::sleep calls made for the current entry
    tool,          \* sequence of ethtool invocations [nic, argv, launched]
    opened,        \* set of [nic, key, irq]: control files an open was tried on
    writes,        \* set of [nic, key, irq, data]: write_all calls made
    written        \* set of [nic, key, irq, data]: write_all calls that returned Ok

vars == <<config, profile_name, pc, exit_code, stderr, profile, nic, pending,
          cur, i, attempts, sleeps, tool, opened, writes, written>>

-----------------------------------------------------------------------------
(* Bounds of the model *)

MaxProfiles == 2    \* profiles in a configuration
MaxNics == 2        \* interfaces in a profile
MaxIrqs == 2        \* entries in an interface's irqs map
MaxCount == 12      \* largest queue count drawn

-----------------------------------------------------------------------------
(* Option<T> *)

None == <<>>
Some(x) == <<x>>
IsSome(o) == o # None
Unwrap(o) == o[1]

-----------------------------------------------------------------------------
(* Characters and strings *)

DigitChars == <<"0", "1", "2", "3", "4", "5", "6", "7", "8", "9">>

LetterChars == {"a", "b", "c", "d", "e", "f", "g", "h", "i", "j", "k", "l", "m",
                "n", "o", "p", "q", "r", "s", "t", "u", "v", "w", "x", "y", "z",
                "A", "B", "C", "D", "E", "F", "G", "H", "I", "J", "K", "L", "M",
                "N", "O", "P", "Q", "R", "S", "T", "U", "V", "W", "X", "Y", "Z"}

\* u8::is_ascii_digit
is_ascii_digit(b) == \E d \in 1..10 : DigitChars[d] = b

\* u8::is_ascii_alphanumeric
is_ascii_alphanumeric(b) == is_ascii_digit(b) \/ b \in LetterChars

DigitValue(b) == (CHOOSE d \in 1..10 : DigitChars[d] = b) - 1

\* format!("{n}") of an unsigned integer: its decimal digits, no padding
RECURSIVE Display(_)
Display(n) ==
    IF n < 10 THEN <<DigitChars[n + 1]>>
    ELSE Display(n \div 10) \o <<DigitChars[(n % 10) + 1]>>

\* u32::MAX, in decimal digits (the model checker's integers are narrower)
U32MaxDigits == <<"4", "2", "9", "4", "9", "6", "7", "2", "9", "5">>

RECURSIVE StripZeros(_)
StripZeros(s) ==
    IF Len(s) > 1 /\ Head(s) = "0" THEN StripZeros(Tail(s)) ELSE s

RECURSIVE DigitsLeq(_, _)
\* a <= b, for digit strings of one length
DigitsLeq(a, b) ==
    IF a = <<>> THEN TRUE
    ELSE IF DigitValue(Head(a)) # DigitValue(Head(b))
         THEN DigitValue(Head(a)) < DigitValue(Head(b))
    ELSE DigitsLeq(Tail(a), Tail(b))

\* the digits of a string accumulate to a u32: none is a non-digit and the
\* value is at most u32::MAX.  The value is kept as its decimal digits, which
\* is what format!("/proc/irq/{irq}/smp_affinity_list") puts in the path.
ParseDigits(s) ==
    IF s = <<>> THEN None
    ELSE IF \E k \in 1..Len(s) : ~is_ascii_digit(s[k]) THEN None
    ELSE LET v == StripZeros(s)
         IN  IF Len(v) > Len(U32MaxDigits) THEN None
             ELSE IF Len(v) = Len(U32MaxDigits) /\ ~DigitsLeq(v, U32MaxDigits)
                  THEN None
             ELSE Some(v)

\* str::parse::<u32>: an optional leading +, then at least one digit, no
\* sign alone, no overflow
ParseU32(s) ==
    IF s = <<>> THEN None
    ELSE IF s = <<"+">> \/ s = <<"-">> THEN None
    ELSE IF Head(s) = "+" THEN ParseDigits(Tail(s))
    ELSE ParseDigits(s)

-----------------------------------------------------------------------------
(* NetworkQueues::args *)

TX == <<"t", "x">>
RX == <<"r", "x">>
COMBINED == <<"c", "o", "m", "b", "i", "n", "e", "d">>

\* args with the receive pair pushed before the transmit pair
args_rx_first(queues) ==
    LET r0 == <<>>
        r1 == IF IsSome(queues.receive)
              THEN Append(Append(r0, RX), Display(Unwrap(queues.receive)))
              ELSE r0
        r2 == IF IsSome(queues.transmit)
              THEN Append(Append(r1, TX), Display(Unwrap(queues.transmit)))
              ELSE r1
        r3 == IF IsSome(queues.combined)
              THEN Append(Append(r2, COMBINED), Display(Unwrap(queues.combined)))
              ELSE r2
    IN  r3

args(queues) ==
    LET r0 == <<>>
        r1 == IF IsSome(queues.transmit)
              THEN Append(Append(r0, TX), Display(Unwrap(queues.transmit)))
              ELSE r0
        r2 == IF IsSome(queues.receive)
              THEN Append(Append(r1, RX), Display(Unwrap(queues.receive)))
              ELSE r1
        r3 == IF IsSome(queues.combined)
              THEN Append(Append(r2, COMBINED), Display(Unwrap(queues.combined)))
              ELSE r2
    IN  r3

\* the command line of NetworkQueues::apply, after the program name
DASH_L == <<"-", "L">>
ethtool_argv(queues, name) == <<DASH_L, name>> \o args(queues)

\* the assertion with any() for all()
NameOkAny(name) == \E k \in 1..Len(name) : is_ascii_alphanumeric(name[k])

\* the assertion of NetworkQueues::apply
NameOk(name) == \A k \in 1..Len(name) : is_ascii_alphanumeric(name[k])

\* the assertion with any() for all()
AffinityOkAny(affinity) ==
    \E k \in 1..Len(affinity) :
        is_ascii_digit(affinity[k]) \/ affinity[k] = "-" \/ affinity[k] = ","

\* the assertion of set_irq_affinity
AffinityOk(affinity) ==
    \A k \in 1..Len(affinity) :
        is_ascii_digit(affinity[k]) \/ affinity[k] = "-" \/ affinity[k] = ","

-----------------------------------------------------------------------------
(* Config::profile: the first profile whose name is the one given, 0 if none *)

RECURSIVE find_from(_, _, _)
find_from(cfg, name, p) ==
    IF p > Len(cfg.profile) THEN 0
    ELSE IF cfg.profile[p].name = name THEN p
    ELSE find_from(cfg, name, p + 1)

RECURSIVE rfind_from(_, _, _)
rfind_from(cfg, name, p) ==
    IF p = 0 THEN 0
    ELSE IF cfg.profile[p].name = name THEN p
    ELSE rfind_from(cfg, name, p - 1)

\* the lookup with rfind for find: the last profile of that name
find_profile_last(cfg, name) == rfind_from(cfg, name, Len(cfg.profile))

find_profile(cfg, name) == find_from(cfg, name, 1)

-----------------------------------------------------------------------------
(* The configurations drawn.  Four families, each varying one part of the   *)
(* configuration tree and keeping the rest small:                           *)
(*   ByProfiles    the profile list (names repeat, or miss the one asked)   *)
(*   ByInterfaces  the interface list of the one profile                    *)
(*   ByIrqs        the irqs map of the one interface                        *)
(*   ByQueues      the queue counts of the one interface                    *)

ProfileNames == {"tuned", "other"}

Eth(k) == <<"e", "t", "h">> \o Display(k)
BadName == <<"e", "t", "h", "0", ";", " ", "r", "m">>

GoodAffinity == <<"0", "-", "3", ",", "5">>
BadAffinity == <<"0", ",", "1", ";">>
Affinities == {GoodAffinity, BadAffinity}

\* "9", "10", ... parse, and so does "+9" (to 9 again); "x" does not, and
\* u32::MAX + 1 does not
IrqKey(j) == Display(8 + j)
PlusKey == <<"+", "9">>
BadKeys == {<<"x">>, <<"4", "2", "9", "4", "9", "6", "7", "2", "9", "6">>}
IrqKeys == {IrqKey(j) : j \in 1..MaxIrqs} \cup {PlusKey} \cup BadKeys

IrqMaps ==
    UNION {[S -> Affinities] :
             S \in {T \in SUBSET IrqKeys : Cardinality(T) <= MaxIrqs}}

NoIrqs == [k \in {} |-> GoodAffinity]
OneIrq == [k \in {IrqKey(1)} |-> GoodAffinity]
GoodIrqs == [k \in {IrqKey(j) : j \in 1..MaxIrqs} |-> GoodAffinity]

Counts == {None} \cup {Some(n) : n \in {0, 7, 10, MaxCount}}
QueueSet == [transmit : Counts, receive : Counts, combined : Counts]
NoQueues == [transmit |-> None, receive |-> None, combined |-> None]
\* the queues of the interface at position k of a drawn interface list
QueuesAt(k) ==
    IF k % 2 = 1 THEN NoQueues
    ELSE [transmit |-> None, receive |-> None, combined |-> Some(k)]

Interface(name, queues, irqs) ==
    [name |-> name, queues |-> queues, irqs |-> irqs]

OneProfile(interfaces) ==
    [profile |-> <<[name |-> "tuned", network_interface |-> interfaces]>>]

ByProfiles ==
    {[profile |->
        [p \in 1..n |->
           [name |-> names[p],
            network_interface |-> <<Interface(Eth(p), NoQueues, OneIrq)>>]]] :
       n \in 0..MaxProfiles, names \in [1..MaxProfiles -> ProfileNames]}

ByInterfaces ==
    UNION {
      {OneProfile([k \in 1..n |->
                     Interface(names[k], QueuesAt(k), irqs[k])]) :
         names \in [1..n -> {Eth(0), Eth(1), BadName}],
         irqs \in [1..n -> {NoIrqs, OneIrq, GoodIrqs}]} :
      n \in 0..MaxNics}

ByIrqs == {OneProfile(<<Interface(Eth(0), NoQueues, m)>>) : m \in IrqMaps}

ByQueues == {OneProfile(<<Interface(Eth(0), q, NoIrqs)>>) : q \in QueueSet}

ConfigSet == ByProfiles \cup ByInterfaces \cup ByIrqs \cup ByQueues

-----------------------------------------------------------------------------
(* The state after the command line is parsed (main.rs 11-36) *)

Init ==
    /\ config \in ConfigSet
    /\ profile_name \in ProfileNames
    /\ pc = "load"
    /\ exit_code = None
    /\ stderr = <<>>
    /\ profile = 0
    /\ nic = 0
    /\ pending = {}
    /\ cur = None
    /\ i = 0
    /\ attempts = 0
    /\ sleeps = 0
    /\ tool = <<>>
    /\ opened = {}
    /\ writes = {}
    /\ written = {}

-----------------------------------------------------------------------------
(* Helpers of the actions *)

\* the interfaces of the profile found, and the one being configured
Interfaces == config.profile[profile].network_interface
Nic == Interfaces[nic]

\* the status of a process that panicked: 101 when the panic unwinds out of
\* main, 134 (SIGABRT) when the build aborts on panic; the build's choice
PanicStatuses == {101, 134}

\* for i in 0..5
Attempts == 5
\* the check one iteration early, and one late
LastIterationEarly(j) == j = 3
LastIterationLate(j) == j = 5
\* if i == 4
LastIteration(j) == j = 4

Effects == <<tool, opened, writes, written>>
Loop == <<profile, nic, pending, cur, i, attempts, sleeps>>

\* std::process::exit(code) after eprintln!(msg)
Exit(msg, code) ==
    /\ stderr' = Append(stderr, msg)
    /\ exit_code' = Some(code)
    /\ pc' = "exited"

\* a panic: the message goes to standard error and the process ends
Panic(msg) ==
    /\ stderr' = Append(stderr, msg)
    /\ \E status \in PanicStatuses : exit_code' = Some(status)
    /\ pc' = "exited"

CurEntry(key) ==
    [nic |-> nic, key |-> key, irq |-> Unwrap(ParseU32(key))]
CurWrite(key) ==
    [nic |-> nic, key |-> key, irq |-> Unwrap(ParseU32(key)),
     data |-> Nic.irqs[key]]

-----------------------------------------------------------------------------
(* Config::load (main.rs 38-47, 66-82) *)

LoadUnreadable ==
    /\ pc = "load"
    /\ Exit([msg |-> "unable to open config file"], 1)
    /\ UNCHANGED <<config, profile_name, Loop, Effects>>

LoadParseError ==
    /\ pc = "load"
    /\ Exit([msg |-> "failed to parse config file"], 1)
    /\ UNCHANGED <<config, profile_name, Loop, Effects>>

LoadOk ==
    /\ pc = "load"
    /\ pc' = "profile"
    /\ UNCHANGED <<config, profile_name, exit_code, stderr, Loop, Effects>>

(* config.profile(&profile_name).unwrap_or_else(..) (main.rs 49-52) *)

ProfileFound ==
    /\ pc = "profile"
    /\ find_profile(config, profile_name) # 0
    /\ profile' = find_profile(config, profile_name)
    /\ pc' = "main_loop"
    /\ UNCHANGED <<config, profile_name, exit_code, stderr, nic, pending, cur,
                   i, attempts, sleeps, Effects>>

\* the exit of the missing profile with status 0
ProfileNotFoundZero ==
    /\ pc = "profile"
    /\ find_profile(config, profile_name) = 0
    /\ Exit([msg |-> "profile was not found in the config",
             profile |-> profile_name], 0)
    /\ UNCHANGED <<config, profile_name, Loop, Effects>>

ProfileNotFound ==
    /\ pc = "profile"
    /\ find_profile(config, profile_name) = 0
    /\ Exit([msg |-> "profile was not found in the config",
             profile |-> profile_name], 1)
    /\ UNCHANGED <<config, profile_name, Loop, Effects>>

(* for nic in &profile.network_interface { nic.configure() } (main.rs 54-58) *)

\* configure without its call of configure_queues
MainNextSkipQueues ==
    /\ pc = "main_loop"
    /\ nic < Len(Interfaces)
    /\ nic' = nic + 1
    /\ pending' = DOMAIN Interfaces[nic + 1].irqs
    /\ cur' = None
    /\ pc' = "set_irq_affinity"
    /\ UNCHANGED <<config, profile_name, exit_code, stderr, profile, i,
                   attempts, sleeps, Effects>>

\* the next interface: configure prints and calls configure_queues
MainNext ==
    /\ pc = "main_loop"
    /\ nic < Len(Interfaces)
    /\ nic' = nic + 1
    /\ pc' = "configure_queues"
    /\ UNCHANGED <<config, profile_name, exit_code, stderr, profile, pending,
                   cur, i, attempts, sleeps, Effects>>

\* the list is exhausted: main returns
MainReturn ==
    /\ pc = "main_loop"
    /\ nic = Len(Interfaces)
    /\ exit_code' = Some(0)
    /\ pc' = "exited"
    /\ UNCHANGED <<config, profile_name, stderr, Loop, Effects>>

-----------------------------------------------------------------------------
(* NetworkQueues::apply, called by configure_queues (main.rs 111-113, 149-160) *)

\* assert!(nic.bytes().all(|b| b.is_ascii_alphanumeric())) fails
ApplyAssertFail ==
    /\ pc = "configure_queues"
    /\ ~NameOk(Nic.name)
    /\ Panic([msg |-> "assertion failed", name |-> Nic.name])
    /\ UNCHANGED <<config, profile_name, Loop, Effects>>

\* Command::new("/usr/sbin/ethtool")...output() returns Ok, whatever the
\* tool's own exit status; configure goes on to set_irq_affinity
ApplyLaunched ==
    /\ pc = "configure_queues"
    /\ NameOk(Nic.name)
    /\ tool' = Append(tool, [nic |-> nic,
                             argv |-> ethtool_argv(Nic.queues, Nic.name),
                             launched |-> TRUE])
    /\ pending' = DOMAIN Nic.irqs
    /\ cur' = None
    /\ pc' = "set_irq_affinity"
    /\ UNCHANGED <<config, profile_name, exit_code, stderr, profile, nic, i,
                   attempts, sleeps, opened, writes, written>>

\* the launch error dropped (.ok() for .expect(..)): configure goes on
ApplyLaunchFailIgnored ==
    /\ pc = "configure_queues"
    /\ NameOk(Nic.name)
    /\ tool' = Append(tool, [nic |-> nic,
                             argv |-> ethtool_argv(Nic.queues, Nic.name),
                             launched |-> FALSE])
    /\ pending' = DOMAIN Nic.irqs
    /\ cur' = None
    /\ pc' = "set_irq_affinity"
    /\ UNCHANGED <<config, profile_name, exit_code, stderr, profile, nic, i,
                   attempts, sleeps, opened, writes, written>>

\* ...output() returns Err: expect("failed to execute process") panics
ApplyLaunchFail ==
    /\ pc = "configure_queues"
    /\ NameOk(Nic.name)
    /\ tool' = Append(tool, [nic |-> nic,
                             argv |-> ethtool_argv(Nic.queues, Nic.name),
                             launched |-> FALSE])
    /\ Panic([msg |-> "failed to execute process"])
    /\ UNCHANGED <<config, profile_name, Loop, opened, writes, written>>

-----------------------------------------------------------------------------
(* NetworkInterface::set_irq_affinity (main.rs 115-137) *)

\* the iteration over self.irqs is over: configure returns to main's loop
IrqLoopEnd ==
    /\ pc = "set_irq_affinity"
    /\ pending = {}
    /\ cur' = None
    /\ attempts' = 0
    /\ sleeps' = 0
    /\ pc' = "main_loop"
    /\ UNCHANGED <<config, profile_name, exit_code, stderr, profile, nic,
                   pending, i, Effects>>

\* the iteration yields an entry whose key is no u32: expect panics.
\* A HashMap yields its entries in an order the program does not choose.
IrqParseFail ==
    /\ pc = "set_irq_affinity"
    /\ \E key \in pending :
         /\ ParseU32(key) = None
         /\ cur' = key
         /\ pending' = pending \ {key}
         /\ Panic([msg |-> "failed to parse", key |-> key])
    /\ attempts' = 0
    /\ sleeps' = 0
    /\ UNCHANGED <<config, profile_name, profile, nic, i, Effects>>

\* the entry's affinity list fails the assertion
IrqAssertFail ==
    /\ pc = "set_irq_affinity"
    /\ \E key \in pending :
         /\ ParseU32(key) # None
         /\ ~AffinityOk(Nic.irqs[key])
         /\ cur' = key
         /\ pending' = pending \ {key}
         /\ Panic([msg |-> "assertion failed", affinity |-> Nic.irqs[key]])
    /\ attempts' = 0
    /\ sleeps' = 0
    /\ UNCHANGED <<config, profile_name, profile, nic, i, Effects>>

\* the entry passes both checks: the retry loop starts at i = 0
IrqBegin ==
    /\ pc = "set_irq_affinity"
    /\ \E key \in pending :
         /\ ParseU32(key) # None
         /\ AffinityOk(Nic.irqs[key])
         /\ cur' = key
         /\ pending' = pending \ {key}
    /\ i' = 0
    /\ attempts' = 0
    /\ sleeps' = 0
    /\ pc' = "open"
    /\ UNCHANGED <<config, profile_name, exit_code, stderr, profile, nic,
                   Effects>>

\* File::options()...open(path) returns Err
OpenFail ==
    /\ pc = "open"
    /\ attempts' = attempts + 1
    /\ opened' = opened \cup {CurEntry(cur)}
    /\ pc' = "sleep"
    /\ UNCHANGED <<config, profile_name, exit_code, stderr, profile, nic,
                   pending, cur, i, sleeps, tool, writes, written>>

\* open returns Ok(f)
OpenOk ==
    /\ pc = "open"
    /\ attempts' = attempts + 1
    /\ opened' = opened \cup {CurEntry(cur)}
    /\ pc' = "write"
    /\ UNCHANGED <<config, profile_name, exit_code, stderr, profile, nic,
                   pending, cur, i, sleeps, tool, writes, written>>

\* f.write_all(affinity.as_bytes()) returns Err
WriteFail ==
    /\ pc = "write"
    /\ writes' = writes \cup {CurWrite(cur)}
    /\ pc' = "sleep"
    /\ UNCHANGED <<config, profile_name, exit_code, stderr, Loop, tool,
                   opened, written>>

\* write_all returns Ok: break, on to the next entry
WriteOk ==
    /\ pc = "write"
    /\ writes' = writes \cup {CurWrite(cur)}
    /\ written' = written \cup {CurWrite(cur)}
    /\ pc' = "set_irq_affinity"
    /\ UNCHANGED <<config, profile_name, exit_code, stderr, Loop, tool,
                   opened>>

\* the check of i == 4 moved before the sleep: no pause on the last failure
SleepNotOnLast ==
    /\ pc = "sleep"
    /\ IF LastIteration(i)
       THEN /\ Exit([msg |-> "failed to set irq smp affinity list",
                     irq |-> Unwrap(ParseU32(cur)),
                     affinity |-> Nic.irqs[cur]], 1)
            /\ UNCHANGED <<i, sleeps>>
       ELSE /\ sleeps' = sleeps + 1
            /\ i' = i + 1
            /\ pc' = IF i + 1 < Attempts THEN "open" ELSE "set_irq_affinity"
            /\ UNCHANGED <<exit_code, stderr>>
    /\ UNCHANGED <<config, profile_name, profile, nic, pending, cur, attempts,
                   Effects>>

\* thread::sleep(100ms), then the check of i == 4, then the loop's step
Sleep ==
    /\ pc = "sleep"
    /\ sleeps' = sleeps + 1
    /\ IF LastIteration(i)
       THEN /\ Exit([msg |-> "failed to set irq smp affinity list",
                     irq |-> Unwrap(ParseU32(cur)),
                     affinity |-> Nic.irqs[cur]], 1)
            /\ i' = i
       ELSE /\ i' = i + 1
            /\ pc' = IF i + 1 < Attempts THEN "open" ELSE "set_irq_affinity"
            /\ UNCHANGED <<exit_code, stderr>>
    /\ UNCHANGED <<config, profile_name, profile, nic, pending, cur, attempts,
                   Effects>>

-----------------------------------------------------------------------------

Next ==
    \/ LoadUnreadable
    \/ LoadParseError
    \/ LoadOk
    \/ ProfileFound
    \/ ProfileNotFound
    \/ MainNext
    \/ MainReturn
    \/ ApplyAssertFail
    \/ ApplyLaunched
    \/ ApplyLaunchFail
    \/ IrqLoopEnd
    \/ IrqParseFail
    \/ IrqAssertFail
    \/ IrqBegin
    \/ OpenFail
    \/ OpenOk
    \/ WriteFail
    \/ WriteOk
    \/ Sleep

Spec == Init /\ [][Next]_vars

\* the thread of control is never suspended for ever: a step that can be
\* taken is taken
FairSpec == Spec /\ WF_vars(Next)

-----------------------------------------------------------------------------
(* Properties *)

RECURSIVE DecimalValue(_)
\* the number a string of decimal digits denotes
DecimalValue(s) ==
    IF s = <<>> THEN 0
    ELSE DecimalValue(SubSeq(s, 1, Len(s) - 1)) * 10 + DigitValue(s[Len(s)])

\* s is the decimal numeral of n: digits only, no leading zero, value n
IsDecimalOf(s, n) ==
    /\ Len(s) >= 1
    /\ \A k \in 1..Len(s) : is_ascii_digit(s[k])
    /\ Len(s) > 1 => s[1] # "0"
    /\ DecimalValue(s) = n

InRetry == pc \in {"open", "write", "sleep"}

\* the exhaustion message is on standard error
Reported ==
    \E k \in 1..Len(stderr) : stderr[k].msg = "failed to set irq smp affinity list"

CurWritten == CurWrite(cur) \in written

\* C1: an entry's open-and-write is attempted at most 5 times and stops at
\* the first attempt that succeeds: a further attempt is made only while the
\* entry is not written, exhaustion is reported only after 5 attempts, and
\* an entry the loop has left (on any attempt, the 5th included) is written,
\* with nothing reported and the process running, on to the next entry.
C1_RetryStopsAtFirstSuccess ==
    /\ attempts <= 5
    /\ InRetry => ~CurWritten
    /\ Reported => attempts = 5
    /\ (pc = "set_irq_affinity" /\ cur # None) =>
          /\ CurWritten
          /\ exit_code = None
          /\ stderr = <<>>

\* C1 witness: attempts 1..4 failed, the 5th succeeded, entries remain
C1_Witness ==
    /\ pc = "set_irq_affinity"
    /\ cur # None
    /\ attempts = 5
    /\ sleeps = 4
    /\ CurWritten
    /\ exit_code = None
    /\ pending # {}

\* the numeral of the number a key denotes: its digits, without the sign
\* and without leading zeros
KeyNumeral(key) ==
    CHOOSE n \in {SubSeq(key, k, Len(key)) : k \in 1..Len(key)} :
       /\ IsDecimalOf(n, DecimalValue(n))
       /\ \A k \in 1..(Len(key) - Len(n)) : key[k] \in {"+", "0"}

\* all 5 attempts of the current entry have failed
AllFailed ==
    /\ cur # None
    /\ attempts = 5
    /\ pc \notin {"write", "sleep"}
    /\ ~CurWritten

\* nothing of a later entry or a later interface has been touched
NothingLater ==
    /\ \A t \in 1..Len(tool) : tool[t].nic <= nic
    /\ \A o \in opened \cup writes :
          /\ o.nic <= nic
          /\ o.nic = nic => o.key \notin pending

\* C2: when all 5 attempts of an entry fail the process reports the
\* interrupt number and the affinity string and exits with status 1, and
\* from then on no control file is opened or written and no interface is
\* configured: not the entries left in this interface, not a later interface.
C2_ExhaustionAborts ==
    /\ [](AllFailed =>
            /\ pc = "exited"
            /\ exit_code = Some(1)
            /\ stderr = <<[msg |-> "failed to set irq smp affinity list",
                           irq |-> KeyNumeral(cur),
                           affinity |-> Nic.irqs[cur]]>>
            /\ NothingLater)
    /\ [][Reported => UNCHANGED <<tool, opened, writes, written, nic>>]_vars

\* C2 witness: exhaustion with entries and interfaces still to come
C2_Witness ==
    /\ AllFailed
    /\ pc = "exited"
    /\ pending # {}
    /\ nic < Len(Interfaces)

-----------------------------------------------------------------------------

\* the run did everything: profile found, the tool launched once for every
\* interface of the profile, every entry of every irqs map written
FullSuccess ==
    /\ profile # 0
    /\ stderr = <<>>
    /\ Len(tool) = Len(Interfaces)
    /\ \A k \in 1..Len(tool) : tool[k].nic = k /\ tool[k].launched
    /\ \A k \in 1..Len(Interfaces) :
         \A key \in DOMAIN Interfaces[k].irqs :
            \E w \in written :
               w.nic = k /\ w.key = key /\ w.data = Interfaces[k].irqs[key]

FirstMessage(m) == stderr # <<>> /\ stderr[1].msg = m

\* the tool was invoked and output() returned Err
LaunchFailed == \E t \in 1..Len(tool) : ~tool[t].launched

\* C3, as stated: status 0 exactly on full success, and status 1 when the
\* configuration is unreadable or does not parse, the profile is missing,
\* the tool fails to launch, or an entry's attempts are exhausted.
C3_StatusOneOnEveryFailure ==
    /\ pc # "exited" => exit_code = None
    /\ pc = "exited" =>
          /\ exit_code = Some(0) <=> FullSuccess
          /\ FirstMessage("unable to open config file") => exit_code = Some(1)
          /\ FirstMessage("failed to parse config file") => exit_code = Some(1)
          /\ FirstMessage("profile was not found in the config")
                => exit_code = Some(1)
          /\ Reported => exit_code = Some(1)
          /\ LaunchFailed => exit_code = Some(1)

\* C3, amended: status 0 exactly on full success; status 1 when the
\* configuration is unreadable or does not parse, the profile is missing,
\* or an entry's attempts are exhausted; a tool that fails to launch is a
\* panic, whose status is nonzero and not 1 (101, or the abort signal).
C3_StatusByFailure ==
    /\ pc # "exited" => exit_code = None
    /\ pc = "exited" =>
          /\ exit_code = Some(0) <=> FullSuccess
          /\ FirstMessage("unable to open config file") => exit_code = Some(1)
          /\ FirstMessage("failed to parse config file") => exit_code = Some(1)
          /\ FirstMessage("profile was not found in the config")
                => exit_code = Some(1)
          /\ Reported => exit_code = Some(1)
          /\ LaunchFailed => exit_code \in {Some(101), Some(134)}

\* C3 witness: the tool failed to launch and the process has ended
C3_Witness ==
    /\ pc = "exited"
    /\ LaunchFailed
    /\ FirstMessage("failed to execute process")

-----------------------------------------------------------------------------

HasNonAlnum(name) == \E k \in 1..Len(name) : ~is_ascii_alphanumeric(name[k])

Failed == exit_code \notin {None, Some(0)}

\* C4: an interface whose name has a non-alphanumeric character never gets
\* the tool launched (not under its index, not with its name) and none of
\* its control files opened or written; reaching it ends the process.
C4_BadNameNeverLaunched ==
    profile # 0 =>
      \A k \in 1..Len(Interfaces) :
         HasNonAlnum(Interfaces[k].name) =>
            /\ \A t \in 1..Len(tool) :
                  /\ tool[t].nic # k
                  /\ tool[t].argv[2] # Interfaces[k].name
            /\ \A o \in opened \cup writes : o.nic # k
            /\ (nic = k /\ pc # "configure_queues") =>
                  pc = "exited" /\ Failed

\* C4 witness: the run ended at an interface with such a name, which has
\* interrupts to pin, after an earlier interface was configured
C4_Witness ==
    /\ profile # 0
    /\ nic > 1
    /\ HasNonAlnum(Nic.name)
    /\ DOMAIN Nic.irqs # {}
    /\ tool # <<>>
    /\ pc = "exited"

-----------------------------------------------------------------------------

AffinityChars == {"0", "1", "2", "3", "4", "5", "6", "7", "8", "9", "-", ","}
HasBadChar(a) == \E k \in 1..Len(a) : a[k] \notin AffinityChars

\* the current entry's affinity list has a disallowed character
CurIsBad == cur # None /\ HasBadChar(Nic.irqs[cur])

\* C5, as stated: once a map with such a string is applied, no control
\* file of that interface is opened or written.
C5_NoFileTouchedIfAnyEntryBad ==
    profile # 0 =>
      \A k \in 1..Len(Interfaces) :
         (\E key \in DOMAIN Interfaces[k].irqs :
             HasBadChar(Interfaces[k].irqs[key]))
         => \A o \in opened \cup writes : o.nic # k

\* C5, amended: a string with a disallowed character is never written, and
\* no control file is opened or written for its entry or for an entry the
\* iteration had not yielded before it: the process ends when the iteration
\* yields the entry.  (Entries yielded before it are opened and written.)
C5_BadAffinityNeverWritten ==
    /\ \A w \in writes : ~HasBadChar(w.data)
    /\ \A o \in opened \cup writes :
          ~HasBadChar(Interfaces[o.nic].irqs[o.key])
    /\ CurIsBad =>
          /\ pc = "exited"
          /\ Failed
          /\ \A o \in opened \cup writes :
                o.nic = nic => o.key \notin pending \cup {cur}

\* C5 witness: the assertion failed on an entry after another entry of the
\* same map was written
C5_Witness ==
    /\ CurIsBad
    /\ pc = "exited"
    /\ \E w \in written : w.nic = nic

-----------------------------------------------------------------------------

\* a is the pair (keyword, count) of every count of q that is set, in the
\* order tx, rx, combined, and nothing else
ArgsAsSpecified(q, a) ==
    LET counts == <<q.transmit, q.receive, q.combined>>
        words == <<<<"t", "x">>, <<"r", "x">>,
                   <<"c", "o", "m", "b", "i", "n", "e", "d">>>>
        set == {j \in 1..3 : counts[j] # <<>>}
        rank(j) == Cardinality({m \in set : m <= j})
    IN  /\ Len(a) = 2 * Cardinality(set)
        /\ \A j \in set :
              /\ a[2 * rank(j) - 1] = words[j]
              /\ IsDecimalOf(a[2 * rank(j)], counts[j][1])

\* C6: the arguments every tool invocation carries after -L <name> are
\* exactly the pairs (keyword, decimal count) of the counts that are set, in
\* the order tx, rx, combined; in particular [combined, N] when only
\* combined is set and nothing when none is.
C6_ArgsInFixedOrder ==
    profile # 0 =>
      \A t \in 1..Len(tool) :
         LET q == Interfaces[tool[t].nic].queues
             a == SubSeq(tool[t].argv, 3, Len(tool[t].argv))
         IN  /\ ArgsAsSpecified(q, a)
             /\ (q.transmit = <<>> /\ q.receive = <<>> /\ q.combined = <<10>>)
                   => a = <<<<"c", "o", "m", "b", "i", "n", "e", "d">>,
                            <<"1", "0">>>>
             /\ (q.transmit = <<7>> /\ q.receive = <<10>> /\ q.combined = <<0>>)
                   => a = <<<<"t", "x">>, <<"7">>, <<"r", "x">>, <<"1", "0">>,
                            <<"c", "o", "m", "b", "i", "n", "e", "d">>, <<"0">>>>
             /\ (q.transmit = <<>> /\ q.receive = <<>> /\ q.combined = <<>>)
                   => a = <<>>

\* C6 witness: the tool was invoked for queues with all three counts set,
\* to different values, one of them of two digits
C6_Witness ==
    /\ profile # 0
    /\ \E t \in 1..Len(tool) :
          LET q == Interfaces[tool[t].nic].queues
          IN  /\ q.transmit = <<7>>
              /\ q.receive = <<10>>
              /\ q.combined = <<0>>

-----------------------------------------------------------------------------

Matches == {p \in 1..Len(config.profile) : config.profile[p].name = profile_name}
FirstMatch == IF Matches = {} THEN 0
              ELSE CHOOSE p \in Matches : \A q \in Matches : p <= q

LoadFailed ==
    \/ FirstMessage("unable to open config file")
    \/ FirstMessage("failed to parse config file")

\* C7: the lookup yields the first profile in file order whose name is the
\* one asked for, and none when there is no such profile (the run then ends
\* with nothing done); the tool is invoked with the names of that profile's
\* interfaces only, never with an interface of a later profile of that name.
C7_FirstProfileOfThatName ==
    (pc \notin {"load", "profile"} /\ ~LoadFailed) =>
       IF Matches = {}
       THEN /\ profile = 0
            /\ FirstMessage("profile was not found in the config")
            /\ tool = <<>> /\ opened = {} /\ writes = {}
       ELSE /\ profile = FirstMatch
            /\ \A t \in 1..Len(tool) :
                  /\ tool[t].nic \in 1..Len(config.profile[FirstMatch].network_interface)
                  /\ tool[t].argv[2] =
                       config.profile[FirstMatch].network_interface[tool[t].nic].name
                  /\ \A p \in Matches \ {FirstMatch} :
                        \A k \in 1..Len(config.profile[p].network_interface) :
                           config.profile[p].network_interface[k].name
                              # config.profile[FirstMatch].network_interface[k].name
                           => tool[t].argv[2]
                                 # config.profile[p].network_interface[k].name

\* C7 witness: two profiles have the name asked for, their interfaces
\* differ, and the run has configured an interface and ended
C7_Witness ==
    /\ Cardinality(Matches) >= 2
    /\ \E p \in Matches \ {FirstMatch} :
          config.profile[p].network_interface
             # config.profile[FirstMatch].network_interface
    /\ pc = "exited"
    /\ exit_code = Some(0)
    /\ written # {}

-----------------------------------------------------------------------------

\* the interfaces that have a side effect: a tool invocation, an open, a write
EffectNics ==
    {tool[t].nic : t \in 1..Len(tool)} \cup {o.nic : o \in opened \cup writes}

\* every entry of interface k is written
Finished(k) ==
    \A key \in DOMAIN Interfaces[k].irqs :
       \E w \in written : w.nic = k /\ w.key = key

\* C8: side effects are ordered.  The tool invocations are of interfaces
\* 1, 2, ... in profile order, one each; a control file of an interface is
\* opened or written only after the tool was launched for it; an interface
\* has a side effect only when every entry of every earlier interface is
\* written; and no step adds a side effect of an interface when a later
\* interface already has one.
C8_SideEffectsInOrder ==
    /\ [](profile # 0 =>
            /\ \A t \in 1..Len(tool) : tool[t].nic = t
            /\ \A o \in opened \cup writes :
                  \E t \in 1..Len(tool) : tool[t].nic = o.nic /\ tool[t].launched
            /\ \A k \in EffectNics : \A j \in 1..(k - 1) : Finished(j))
    /\ [][\A n \in EffectNics' \ EffectNics : \A m \in EffectNics : m < n]_vars
    /\ [][\A o \in (opened' \cup writes') \ (opened \cup writes) :
             \A m \in EffectNics : m <= o.nic]_vars

\* C8 witness: a second interface has its control files written after a
\* first interface with two entries
C8_Witness ==
    /\ profile # 0
    /\ Len(tool) >= 2
    /\ Cardinality({w \in written : w.nic = 1}) >= 2
    /\ \E w \in written : w.nic = 2

-----------------------------------------------------------------------------

ToolCount(k) == Cardinality({t \in 1..Len(tool) : tool[t].nic = k})

\* configure has reached interface k and is past its configure_queues
PastQueues(k) == k < nic \/ (k = nic /\ pc # "configure_queues")

\* C9: the tool is invoked at most once for an interface, and exactly once
\* for every interface with a valid name that configure has taken past
\* configure_queues, with only -L <name> when no count is set; an
\* invocation that fails to launch is the last one, ends the process with
\* a failure, and leaves no control file of that or a later interface
\* opened or written.
C9_ToolOncePerInterface ==
    profile # 0 =>
      /\ \A k \in 1..Len(Interfaces) :
            /\ ToolCount(k) <= 1
            /\ (PastQueues(k) /\ ~HasNonAlnum(Interfaces[k].name))
                  => ToolCount(k) = 1
      /\ \A t \in 1..Len(tool) :
            /\ Interfaces[tool[t].nic].queues = NoQueues
                  => tool[t].argv = <<<<"-", "L">>, Interfaces[tool[t].nic].name>>
            /\ ~tool[t].launched =>
                  /\ t = Len(tool)
                  /\ pc = "exited"
                  /\ Failed
                  /\ \A o \in opened \cup writes : o.nic < tool[t].nic

\* C9 witness: the launch failed for an interface with no count set and
\* interrupts to pin, with another interface after it
C9_Witness ==
    /\ profile # 0
    /\ LaunchFailed
    /\ Nic.queues = NoQueues
    /\ DOMAIN Nic.irqs # {}
    /\ nic < Len(Interfaces)
    /\ pc = "exited"

-----------------------------------------------------------------------------

\* C10: every run ends.  An entry has at most 5 attempts and at most 5
\* pauses; every failed attempt is followed by a pause, the 5th included,
\* and a successful one by none; the run ends after the last interface
\* (status 0, nothing reported) or at the first fatal error (one message).
C10_EveryRunEnds ==
    /\ <>(pc = "exited")
    /\ [](/\ attempts <= 5
          /\ sleeps <= 5
          /\ pc = "open" => sleeps = attempts
          /\ pc \in {"write", "sleep"} => sleeps = attempts - 1
          /\ (pc = "set_irq_affinity" /\ cur # None) =>
                CurWritten /\ sleeps = attempts - 1
          /\ Reported => sleeps = 5 /\ attempts = 5
          /\ stderr # <<>> => pc = "exited" /\ Len(stderr) = 1 /\ Failed
          /\ (pc = "exited" /\ stderr = <<>>) =>
                exit_code = Some(0) /\ nic = Len(Interfaces))

\* C10 witness: an entry was given up after 5 attempts and 5 pauses
C10_Witness ==
    /\ Reported
    /\ attempts = 5
    /\ sleeps = 5
    /\ pc = "exited"

====
